---- MODULE Spec2Model ----
(***************************************************************************)
(* Secure QR payload protocol: the envelope builder                        *)
(* (qr_generator._make_payload_bytes, _embed_payload_in_url) and the       *)
(* envelope verifier (qr_verify.verify_payload).                           *)
(*                                                                         *)
(* Bytes are integers 0..255, a Python str is a sequence of code points.   *)
(* The inner encodings (standard base64 of the message, UTF-8 decoding of  *)
(* the recovered bytes, truthiness of the envelope fields) are computed    *)
(* character by character.  SHA-256 and HMAC-SHA256 are symbolic (an ideal *)
(* hash: a digest is the term that names its inputs), so the mac field is  *)
(* a string that names the digest it encodes and how (hex or base64).  The *)
(* outer layer (compact JSON, then URL-safe base64) carries the envelope   *)
(* as a structure: whether the token decodes, what kind of JSON value it   *)
(* holds, and the value of each field.                                     *)
(***************************************************************************)
EXTENDS Integers, Sequences, FiniteSets, TLC

\* ------------------------------------------------------------------------
\* Bounds of the model
\* ------------------------------------------------------------------------
MaxLen == 2

\* 'h', and the two bytes of the UTF-8 encoding of U+00E9: alone or in the
\* wrong order they are not valid UTF-8
ByteVals == {104, 195, 169}

RECURSIVE SeqsUpTo(_, _)
SeqsUpTo(S, n) ==
    IF n = 0 THEN {<<>>}
    ELSE LET shorter == SeqsUpTo(S, n - 1)
         IN  shorter \cup {Append(s, x) : s \in {t \in shorter : Len(t) = n - 1}, x \in S}

\* a text that is itself well-formed base64: "/w=="
TextMessages == {<<47, 119, 61, 61>>}

Messages == SeqsUpTo(ByteVals, MaxLen) \cup TextMessages

\* ------------------------------------------------------------------------
\* Python str literals used by the code, as code points
\* ------------------------------------------------------------------------
StrHash == <<104, 97, 115, 104>>
StrHmac == <<104, 109, 97, 99>>
StrXyz  == <<120, 121, 122>>

\* ------------------------------------------------------------------------
\* Standard base64 (base64.b64encode / base64.b64decode, non-validating)
\* ------------------------------------------------------------------------
PadChar == 61

B64Char(i) ==
    IF i < 26 THEN 65 + i
    ELSE IF i < 52 THEN 97 + (i - 26)
    ELSE IF i < 62 THEN 48 + (i - 52)
    ELSE IF i = 62 THEN 43
    ELSE 47

\* table_a2b_base64: 64 for a character outside the alphabet
B64Index(c) ==
    IF c \in 65..90 THEN c - 65
    ELSE IF c \in 97..122 THEN c - 97 + 26
    ELSE IF c \in 48..57 THEN c - 48 + 52
    ELSE IF c = 43 THEN 62
    ELSE IF c = 47 THEN 63
    ELSE 64

RECURSIVE b64encode(_)
b64encode(b) ==
    IF Len(b) = 0 THEN <<>>
    ELSE IF Len(b) = 1 THEN
        <<B64Char(b[1] \div 4), B64Char((b[1] % 4) * 16), PadChar, PadChar>>
    ELSE IF Len(b) = 2 THEN
        <<B64Char(b[1] \div 4), B64Char((b[1] % 4) * 16 + (b[2] \div 16)),
          B64Char((b[2] % 16) * 4), PadChar>>
    ELSE
        <<B64Char(b[1] \div 4), B64Char((b[1] % 4) * 16 + (b[2] \div 16)),
          B64Char((b[2] % 16) * 4 + (b[3] \div 64)), B64Char(b[3] % 64)>>
        \o b64encode(SubSeq(b, 4, Len(b)))

DecodeError == [ok |-> FALSE, bytes |-> <<>>]
Decoded(b)  == [ok |-> TRUE, bytes |-> b]

\* binascii.a2b_base64 without strict mode: characters outside the alphabet
\* are skipped, a completed pad sequence ends the parse, an unfinished quad
\* at the end of the input is an error.
RECURSIVE a2b_base64(_, _, _, _, _, _)
a2b_base64(s, i, quad_pos, leftchar, pads, out) ==
    IF i > Len(s) THEN
        IF quad_pos # 0 THEN DecodeError ELSE Decoded(out)
    ELSE IF s[i] = PadChar THEN
        IF quad_pos >= 2 /\ quad_pos + pads + 1 >= 4 THEN Decoded(out)
        ELSE a2b_base64(s, i + 1, quad_pos, leftchar,
                        IF quad_pos >= 2 THEN pads + 1 ELSE pads, out)
    ELSE IF B64Index(s[i]) >= 64 THEN
        a2b_base64(s, i + 1, quad_pos, leftchar, pads, out)
    ELSE LET ch == B64Index(s[i]) IN
        CASE quad_pos = 0 -> a2b_base64(s, i + 1, 1, ch, 0, out)
          [] quad_pos = 1 -> a2b_base64(s, i + 1, 2, ch % 16, 0,
                                        Append(out, leftchar * 4 + (ch \div 16)))
          [] quad_pos = 2 -> a2b_base64(s, i + 1, 3, ch % 4, 0,
                                        Append(out, leftchar * 16 + (ch \div 4)))
          [] OTHER        -> a2b_base64(s, i + 1, 0, 0, 0,
                                        Append(out, leftchar * 64 + ch))

\* base64.b64decode(s) for a str s: a non-ASCII character raises ValueError
b64decode(s) ==
    IF \E i \in 1..Len(s) : s[i] > 127 THEN DecodeError
    ELSE a2b_base64(s, 1, 0, 0, 0, <<>>)

\* binascii.a2b_base64 in strict mode: a character outside the alphabet, a
\* leading pad, a data character after a pad and anything after the
\* completed pad sequence are errors.
RECURSIVE a2b_base64_strict(_, _, _, _, _, _, _)
a2b_base64_strict(s, i, quad_pos, leftchar, pads, padding_started, out) ==
    IF i > Len(s) THEN
        IF quad_pos # 0 THEN DecodeError ELSE Decoded(out)
    ELSE IF s[i] = PadChar THEN
        IF i = 1 THEN DecodeError
        ELSE IF quad_pos >= 2 /\ quad_pos + pads + 1 >= 4 THEN
            IF i < Len(s) THEN DecodeError ELSE Decoded(out)
        ELSE a2b_base64_strict(s, i + 1, quad_pos, leftchar,
                               IF quad_pos >= 2 THEN pads + 1 ELSE pads, TRUE, out)
    ELSE IF B64Index(s[i]) >= 64 THEN DecodeError
    ELSE IF padding_started THEN DecodeError
    ELSE LET ch == B64Index(s[i]) IN
        CASE quad_pos = 0 -> a2b_base64_strict(s, i + 1, 1, ch, 0, FALSE, out)
          [] quad_pos = 1 -> a2b_base64_strict(s, i + 1, 2, ch % 16, 0, FALSE,
                                               Append(out, leftchar * 4 + (ch \div 16)))
          [] quad_pos = 2 -> a2b_base64_strict(s, i + 1, 3, ch % 4, 0, FALSE,
                                               Append(out, leftchar * 16 + (ch \div 4)))
          [] OTHER        -> a2b_base64_strict(s, i + 1, 0, 0, 0, FALSE,
                                               Append(out, leftchar * 64 + ch))

\* base64.b64decode(s, validate=True) for a str s
b64decode_validate(s) ==
    IF \E i \in 1..Len(s) : s[i] > 127 THEN DecodeError
    ELSE a2b_base64_strict(s, 1, 0, 0, 0, FALSE, <<>>)

\* ------------------------------------------------------------------------
\* UTF-8 (bytes.decode('utf-8'), str.encode('utf-8'))
\* ------------------------------------------------------------------------
IsCont(b) == b \in 128..191

Utf8Error == [ok |-> FALSE, s |-> <<>>]

RECURSIVE utf8_decode(_, _)
utf8_decode(b, acc) ==
    IF Len(b) = 0 THEN [ok |-> TRUE, s |-> acc]
    ELSE LET n == Len(b) IN
        IF b[1] < 128 THEN
            utf8_decode(SubSeq(b, 2, n), Append(acc, b[1]))
        ELSE IF b[1] \in 194..223 /\ n >= 2 /\ IsCont(b[2]) THEN
            utf8_decode(SubSeq(b, 3, n),
                        Append(acc, (b[1] - 192) * 64 + (b[2] - 128)))
        ELSE IF /\ b[1] \in 224..239 /\ n >= 3 /\ IsCont(b[2]) /\ IsCont(b[3])
                /\ (b[1] = 224 => b[2] >= 160)
                /\ (b[1] = 237 => b[2] <= 159) THEN
            utf8_decode(SubSeq(b, 4, n),
                        Append(acc, (b[1] - 224) * 4096 + (b[2] - 128) * 64 + (b[3] - 128)))
        ELSE IF /\ b[1] \in 240..244 /\ n >= 4
                /\ IsCont(b[2]) /\ IsCont(b[3]) /\ IsCont(b[4])
                /\ (b[1] = 240 => b[2] >= 144)
                /\ (b[1] = 244 => b[2] <= 143) THEN
            utf8_decode(SubSeq(b, 5, n),
                        Append(acc, (b[1] - 240) * 262144 + (b[2] - 128) * 4096
                                    + (b[3] - 128) * 64 + (b[4] - 128)))
        ELSE Utf8Error

Utf8Decode(b) == utf8_decode(b, <<>>)

RECURSIVE Utf8Encode(_)
Utf8Encode(s) ==
    IF Len(s) = 0 THEN <<>>
    ELSE (IF s[1] < 128 THEN <<s[1]>>
          ELSE IF s[1] < 2048 THEN <<192 + (s[1] \div 64), 128 + (s[1] % 64)>>
          ELSE <<224 + (s[1] \div 4096), 128 + ((s[1] \div 64) % 64), 128 + (s[1] % 64)>>)
         \o Utf8Encode(SubSeq(s, 2, Len(s)))

\* ------------------------------------------------------------------------
\* Keys: key is None or a str (key: str | None)
\* ------------------------------------------------------------------------
NoneKey   == [isNone |-> TRUE, s |-> <<>>]
StrKey(s) == [isNone |-> FALSE, s |-> s]

\* "", "k", "j" and "k\x00"
KeyStrings == {<<>>, <<107>>, <<106>>, <<107, 0>>}
Keys       == {NoneKey} \cup {StrKey(s) : s \in KeyStrings}

\* `is not None` in place of truthiness: "" counts as a key
KeyTruthy_none_only(key) == ~key.isNone

\* `if key:` / `if not key:`
KeyTruthy(key) == ~key.isNone /\ key.s # <<>>

\* ------------------------------------------------------------------------
\* crypto_utils: SHA-256 and HMAC-SHA256 as an ideal hash
\* ------------------------------------------------------------------------
\* block size of SHA-256 in bytes: HMAC pads a shorter key with zero bytes
BlockSize == 64

NoDigest == [alg |-> "none", key |-> <<>>, data |-> <<>>]

\* keys of the model are never longer than a block, so HMAC never hashes them
PadKey(key_bytes) == key_bytes \o [i \in 1..(BlockSize - Len(key_bytes)) |-> 0]

compute_hash(data) == [alg |-> "sha256", key |-> <<>>, data |-> data]

compute_hmac(data, key) ==
    [alg |-> "hmac-sha256", key |-> PadKey(Utf8Encode(key.s)), data |-> data]

\* ------------------------------------------------------------------------
\* JSON values of the envelope fields
\*   t   : "absent" (no such key), "null", "num", "list" or "str"
\*   enc : for a str, "lit" (the characters are s), "hex" (digest.hex() of d)
\*         or "b64" (base64.b64encode of d)
\* ------------------------------------------------------------------------
JAbsent  == [t |-> "absent", enc |-> "lit", s |-> <<>>, d |-> NoDigest]
JNull    == [t |-> "null", enc |-> "lit", s |-> <<>>, d |-> NoDigest]
JNum(n)  == [t |-> "num", enc |-> "lit", s |-> <<n>>, d |-> NoDigest]
JList(s) == [t |-> "list", enc |-> "lit", s |-> s, d |-> NoDigest]
JStr(s)  == [t |-> "str", enc |-> "lit", s |-> s, d |-> NoDigest]
JHex(d)  == [t |-> "str", enc |-> "hex", s |-> <<>>, d |-> d]
JB64(d)  == [t |-> "str", enc |-> "b64", s |-> <<>>, d |-> d]

\* Python truthiness of a JSON value (None, 0, "" and [] are falsy)
Truthy(j) ==
    CASE j.t \in {"absent", "null"} -> FALSE
      [] j.t = "num"  -> j.s[1] # 0
      [] j.t = "list" -> j.s # <<>>
      [] OTHER        -> j.enc # "lit" \/ j.s # <<>>

\* payload.get(name): None when the key is absent
payload_get(j) == IF j.t = "absent" THEN JNull ELSE j

\* ------------------------------------------------------------------------
\* Tokens: urlsafe_b64encode(json.dumps(payload)) and its inverse
\*   b64ok : base64.urlsafe_b64decode accepts the string
\*   json  : what json.loads makes of the decoded bytes: "invalid" (it
\*           raises), "object", "list", "number", "string" or "null"
\* ------------------------------------------------------------------------
Envelope(v, mode, mac, msg_b64, ts) ==
    [b64ok |-> TRUE, json |-> "object",
     v |-> v, mode |-> mode, mac |-> mac, msg_b64 |-> msg_b64, ts |-> ts]

RawToken(b64ok, json) ==
    [b64ok |-> b64ok, json |-> json,
     v |-> JAbsent, mode |-> JAbsent, mac |-> JAbsent, msg_b64 |-> JAbsent, ts |-> JAbsent]

NoToken == RawToken(FALSE, "invalid")

\* ------------------------------------------------------------------------
\* qr_generator._make_payload_bytes
\* ------------------------------------------------------------------------
\* the builder with the mac computed over the base64 text of the message
\* instead of its raw bytes
_make_payload_bytes_mac_over_b64(message_bytes, key, ts) ==
    LET mode    == IF KeyTruthy(key) THEN StrHmac ELSE StrHash
        mac_b64 == IF KeyTruthy(key)
                   THEN JB64(compute_hmac(b64encode(message_bytes), key))
                   ELSE JHex(compute_hash(b64encode(message_bytes)))
    IN  Envelope(JNum(1), JStr(mode), mac_b64, JStr(b64encode(message_bytes)), JStr(ts))

_make_payload_bytes(message_bytes, key, ts) ==
    LET mode    == IF KeyTruthy(key) THEN StrHmac ELSE StrHash
        mac_b64 == IF KeyTruthy(key)
                   THEN JB64(compute_hmac(message_bytes, key))
                   ELSE JHex(compute_hash(message_bytes))
    IN  Envelope(JNum(1), JStr(mode), mac_b64, JStr(b64encode(message_bytes)), JStr(ts))

\* ------------------------------------------------------------------------
\* qr_verify.verify_payload
\* ------------------------------------------------------------------------
NoneStr   == [isNone |-> TRUE, s |-> <<>>]
SomeStr(s) == [isNone |-> FALSE, s |-> s]
NoMeta    == [isNone |-> TRUE, mode |-> JNull, ts |-> JNull]
Meta(mode, ts) == [isNone |-> FALSE, mode |-> mode, ts |-> ts]

NoReason == "<None>"
ReasonInvalidPayload == "invalid payload encoding"
ReasonMissingFields  == "missing fields in payload"
ReasonMsgDecode      == "message b64 decode failed"
ReasonKeyRequired    == "HMAC was used to create QR - a secret key is required for verification"
ReasonBadHmacField   == "Invalid HMAC field encoding"
ReasonHmacMismatch   == "HMAC mismatch - content was changed or wrong key"
ReasonHashMismatch   == "Hash mismatch - content was changed"
ReasonUnknownMode    == "unknown mode"

Verdict(valid, message, meta, reason) ==
    [raised |-> FALSE, valid |-> valid, message |-> message, meta |-> meta, reason |-> reason]

\* an exception that leaves verify_payload
Raised(exc) ==
    [raised |-> TRUE, valid |-> FALSE, message |-> NoneStr, meta |-> NoMeta, reason |-> exc]

NoVerdict == Raised("<not called>")

\* try: message_bytes.decode('utf-8')
\* except: base64.b64encode(message_bytes).decode('ascii')
RecoverMessage(message_bytes) ==
    IF Utf8Decode(message_bytes).ok
    THEN SomeStr(Utf8Decode(message_bytes).s)
    ELSE SomeStr(b64encode(message_bytes))

\* base64.b64decode(msg_b64): a value that is not a str raises TypeError
decode_msg_b64(msg_b64) ==
    IF msg_b64.t # "str" THEN DecodeError ELSE b64decode(msg_b64.s)

\* base64.b64decode(mac_field): the digest the field encodes.  A str that is
\* not the base64 of a digest (a hex digest is 64 alphabet characters, 48
\* bytes) decodes, when it decodes, to bytes that are no digest.
decode_mac_field(mac_field) ==
    IF mac_field.t # "str" THEN [ok |-> FALSE, d |-> NoDigest]
    ELSE IF mac_field.enc = "b64" THEN [ok |-> TRUE, d |-> mac_field.d]
    ELSE IF mac_field.enc = "hex" THEN [ok |-> TRUE, d |-> NoDigest]
    ELSE [ok |-> b64decode(mac_field.s).ok, d |-> NoDigest]

\* the chain with a plain else for the hash branch
mode_branch_else_hash(mode) ==
    IF mode = JStr(StrHmac) THEN "hmac" ELSE "hash"

\* the if / elif / else chain on mode
mode_branch(mode) ==
    IF mode = JStr(StrHmac) THEN "hmac"
    ELSE IF mode = JStr(StrHash) THEN "hash"
    ELSE "unknown"

\* `not (mode and mac_field and msg_b64)`
fields_missing(mode, mac_field, msg_b64) ==
    ~(Truthy(mode) /\ Truthy(mac_field) /\ Truthy(msg_b64))

\* verify_payload with ts among the fields that must be present
verify_payload_ts_required(payload_b64, key) ==
    IF ~payload_b64.b64ok \/ payload_b64.json = "invalid" THEN
        Verdict(FALSE, NoneStr, NoMeta, ReasonInvalidPayload)
    ELSE IF payload_b64.json # "object" THEN
        Raised("AttributeError")
    ELSE
    LET mode      == payload_get(payload_b64.mode)
        mac_field == payload_get(payload_b64.mac)
        msg_b64   == payload_get(payload_b64.msg_b64)
        ts        == payload_get(payload_b64.ts)
    IN
    IF fields_missing(mode, mac_field, msg_b64) \/ ~Truthy(ts) THEN
        Verdict(FALSE, NoneStr, NoMeta, ReasonMissingFields)
    ELSE IF ~decode_msg_b64(msg_b64).ok THEN
        Verdict(FALSE, NoneStr, NoMeta, ReasonMsgDecode)
    ELSE
    LET message_bytes == decode_msg_b64(msg_b64).bytes
        message       == RecoverMessage(message_bytes)
        meta          == Meta(mode, ts)
    IN
    CASE mode_branch(mode) = "hmac" ->
            IF ~KeyTruthy(key) THEN
                Verdict(FALSE, NoneStr, NoMeta, ReasonKeyRequired)
            ELSE IF ~decode_mac_field(mac_field).ok THEN
                Verdict(FALSE, NoneStr, NoMeta, ReasonBadHmacField)
            ELSE IF compute_hmac(message_bytes, key) = decode_mac_field(mac_field).d THEN
                Verdict(TRUE, message, meta, NoReason)
            ELSE
                Verdict(FALSE, message, meta, ReasonHmacMismatch)
      [] mode_branch(mode) = "hash" ->
            IF JHex(compute_hash(message_bytes)) = mac_field THEN
                Verdict(TRUE, message, meta, NoReason)
            ELSE
                Verdict(FALSE, message, meta, ReasonHashMismatch)
      [] OTHER ->
            Verdict(FALSE, NoneStr, NoMeta, ReasonUnknownMode)

verify_payload(payload_b64, key) ==
    IF ~payload_b64.b64ok \/ payload_b64.json = "invalid" THEN
        Verdict(FALSE, NoneStr, NoMeta, ReasonInvalidPayload)
    ELSE IF payload_b64.json # "object" THEN
        Raised("AttributeError")
    ELSE
    LET mode      == payload_get(payload_b64.mode)
        mac_field == payload_get(payload_b64.mac)
        msg_b64   == payload_get(payload_b64.msg_b64)
        ts        == payload_get(payload_b64.ts)
    IN
    IF fields_missing(mode, mac_field, msg_b64) THEN
        Verdict(FALSE, NoneStr, NoMeta, ReasonMissingFields)
    ELSE IF ~decode_msg_b64(msg_b64).ok THEN
        Verdict(FALSE, NoneStr, NoMeta, ReasonMsgDecode)
    ELSE
    LET message_bytes == decode_msg_b64(msg_b64).bytes
        message       == RecoverMessage(message_bytes)
        meta          == Meta(mode, ts)
    IN
    CASE mode_branch(mode) = "hmac" ->
            IF ~KeyTruthy(key) THEN
                Verdict(FALSE, NoneStr, NoMeta, ReasonKeyRequired)
            ELSE IF ~decode_mac_field(mac_field).ok THEN
                Verdict(FALSE, NoneStr, NoMeta, ReasonBadHmacField)
            ELSE IF compute_hmac(message_bytes, key) = decode_mac_field(mac_field).d THEN
                Verdict(TRUE, message, meta, NoReason)
            ELSE
                Verdict(FALSE, message, meta, ReasonHmacMismatch)
      [] mode_branch(mode) = "hash" ->
            IF JHex(compute_hash(message_bytes)) = mac_field THEN
                Verdict(TRUE, message, meta, NoReason)
            ELSE
                Verdict(FALSE, message, meta, ReasonHashMismatch)
      [] OTHER ->
            Verdict(FALSE, NoneStr, NoMeta, ReasonUnknownMode)

\* ------------------------------------------------------------------------
\* qr_generator._embed_payload_in_url
\* A URL is the 6-tuple urlparse makes of it; its query is the sequence of
\* the fields between '&', each a name, whether an '=' follows, and a value
\* (a literal, or a token).
\* ------------------------------------------------------------------------
Lit(s) == [isTok |-> FALSE, lit |-> s, tok |-> NoToken]
Tok(t) == [isTok |-> TRUE, lit |-> "", tok |-> t]

Field(name, eq, value) == [name |-> name, eq |-> eq, value |-> value]

Url(scheme, netloc, path, params, query, fragment) ==
    [scheme |-> scheme, netloc |-> netloc, path |-> path, params |-> params,
     query |-> query, fragment |-> fragment]

\* parse_qsl with keep_blank_values=False: an empty field, a field without
\* '=' and a field with an empty value are skipped
qsl_keeps(f) == (f.name # "" \/ f.eq) /\ f.eq /\ (f.value.isTok \/ f.value.lit # "")

parse_qsl(query) ==
    LET kept == SelectSeq(query, qsl_keeps)
    IN  [i \in DOMAIN kept |-> <<kept[i].name, kept[i].value>>]

\* a list of pairs instead of a dict: an earlier item of the same name stays
dict_set_append(d, k, v) == Append(d, <<k, v>>)

\* d[k] = v on a dict kept as its sequence of items in insertion order
dict_set(d, k, v) ==
    IF \E i \in DOMAIN d : d[i][1] = k
    THEN [i \in DOMAIN d |-> IF d[i][1] = k THEN <<k, v>> ELSE d[i]]
    ELSE Append(d, <<k, v>>)

RECURSIVE dict_of(_, _)
dict_of(pairs, d) ==
    IF pairs = <<>> THEN d
    ELSE dict_of(Tail(pairs), dict_set(d, Head(pairs)[1], Head(pairs)[2]))

urlencode(d) == [i \in DOMAIN d |-> Field(d[i][1], TRUE, d[i][2])]

_embed_payload_in_url(url, payload_b64) ==
    LET q     == dict_set(dict_of(parse_qsl(url.query), <<>>), "data", Tok(payload_b64))
        new_q == urlencode(q)
    IN  Url(url.scheme, url.netloc, url.path, url.params, new_q, url.fragment)

\* ------------------------------------------------------------------------
\* qr_verify.decode_qr_image: the step after the scan
\* The str a QR image holds is a URL, a token, or some other text.
\* ------------------------------------------------------------------------
NoUrl == Url("", "", "", "", <<>>, "")

QrUrl(u) == [kind |-> "url", url |-> u, tok |-> NoToken, lit |-> ""]
QrTok(t) == [kind |-> "tok", url |-> NoUrl, tok |-> t, lit |-> ""]
QrLit(s) == [kind |-> "lit", url |-> NoUrl, tok |-> NoToken, lit |-> s]
NoQr     == QrLit("")

\* a query value as a str of its own
value_str(v) == IF v.isTok THEN QrTok(v.tok) ELSE QrLit(v.lit)

is_data(pair) == pair[1] = "data"

\* parse_qs(p.query)['data'], the list of the values of `data`
qs_data(query) == SelectSeq(parse_qsl(query), is_data)

\* a token and a text without ':' have no scheme
decode_qr_image(raw) ==
    IF /\ raw.kind = "url"
       /\ raw.url.scheme \in {"http", "https"}
       /\ qs_data(raw.url.query) # <<>>
    THEN value_str(qs_data(raw.url.query)[1][2])
    ELSE raw

\* the str handed to verify_payload, as a token: a URL or a text that is
\* no token does not decode to JSON
payload_token(p) == IF p.kind = "tok" THEN p.tok ELSE RawToken(TRUE, "invalid")

\* ------------------------------------------------------------------------
\* qr_secure.verify_payload (qr_verifier.verify_payload is the same code)
\* ------------------------------------------------------------------------
SecInvalidPayload == "Invalid payload"
SecMissingFields  == "Missing fields in payload"
SecMsgDecode      == "Message decode failed"
SecKeyRequired    == "HMAC key required for verification"
SecBadHmacField   == "Invalid HMAC encoding"
SecHmacMismatch   == "HMAC mismatch - wrong key or tampered"
SecHashMismatch   == "Hash mismatch - content tampered"
SecUnknownMode    == "Unknown mode"

secure_verify_payload(payload_b64, key) ==
    IF ~payload_b64.b64ok \/ payload_b64.json = "invalid" THEN
        Verdict(FALSE, NoneStr, NoMeta, SecInvalidPayload)
    ELSE IF payload_b64.json # "object" THEN
        Raised("AttributeError")
    ELSE
    LET mode      == payload_get(payload_b64.mode)
        mac_field == payload_get(payload_b64.mac)
        msg_b64   == payload_get(payload_b64.msg_b64)
        ts        == payload_get(payload_b64.ts)
    IN
    IF ~(\A f \in {mode, mac_field, msg_b64} : Truthy(f)) THEN
        Verdict(FALSE, NoneStr, NoMeta, SecMissingFields)
    ELSE IF ~decode_msg_b64(msg_b64).ok THEN
        Verdict(FALSE, NoneStr, NoMeta, SecMsgDecode)
    ELSE
    LET message_bytes == decode_msg_b64(msg_b64).bytes
        meta          == Meta(mode, ts)
        message       == RecoverMessage(message_bytes)
    IN
    IF mode = JStr(StrHmac) THEN
        IF ~KeyTruthy(key) THEN
            Verdict(FALSE, NoneStr, NoMeta, SecKeyRequired)
        ELSE IF ~decode_mac_field(mac_field).ok THEN
            Verdict(FALSE, NoneStr, NoMeta, SecBadHmacField)
        ELSE IF compute_hmac(message_bytes, key) = decode_mac_field(mac_field).d THEN
            Verdict(TRUE, message, meta, NoReason)
        ELSE
            Verdict(FALSE, message, meta, SecHmacMismatch)
    ELSE IF mode = JStr(StrHash) THEN
        IF JHex(compute_hash(message_bytes)) = mac_field THEN
            Verdict(TRUE, message, meta, NoReason)
        ELSE
            Verdict(FALSE, message, meta, SecHashMismatch)
    ELSE
        Verdict(FALSE, NoneStr, NoMeta, SecUnknownMode)

\* ------------------------------------------------------------------------
\* main.cmd_decode and web/app.index: what they write after the verdict
\* ------------------------------------------------------------------------
NoFile == [written |-> FALSE, name |-> "", bytes |-> <<>>]
FileWritten(name, bytes) == [written |-> TRUE, name |-> name, bytes |-> bytes]

\* the name of the uploaded image
UploadName == "qr.png"

\* cmd_decode without the `if valid:` around the restore
cmd_decode_restore_ungated(valid, message) ==
    IF /\ ~message.isNone
       /\ b64decode_validate(message.s).ok
       /\ ~Utf8Decode(b64decode_validate(message.s).bytes).ok
    THEN FileWritten("restored.bin", b64decode_validate(message.s).bytes)
    ELSE NoFile

\* main.py: restored.bin is written when the verdict is valid, the message
\* is strictly valid base64 and the decoded bytes are not UTF-8
cmd_decode_restore(valid, message) ==
    IF /\ valid
       /\ ~message.isNone
       /\ b64decode_validate(message.s).ok
       /\ ~Utf8Decode(b64decode_validate(message.s).bytes).ok
    THEN FileWritten("restored.bin", b64decode_validate(message.s).bytes)
    ELSE NoFile

\* app.py: the same decision, then `if is_file and file_bytes:`
index_restore(valid, message) ==
    IF /\ valid
       /\ ~message.isNone
       /\ b64decode_validate(message.s).ok
       /\ ~Utf8Decode(b64decode_validate(message.s).bytes).ok
       /\ b64decode_validate(message.s).bytes # <<>>
    THEN FileWritten(UploadName \o ".restored", b64decode_validate(message.s).bytes)
    ELSE NoFile

\* request.form.get("key") or None
form_key(k) == IF KeyTruthy(k) THEN k ELSE NoneKey

\* ------------------------------------------------------------------------
\* qr_generator._generate_qr_img: the files it saves
\* A path is a directory and a file name.  The messages of the model are a
\* few bytes long, so the data always fits a QR code.
\* ------------------------------------------------------------------------
PathOf(dir, name) == [dir |-> dir, name |-> name]

\* <project_root>/assets/qrCode, made if it is not there
_get_qrcode_assets_dir == "project/assets/qrCode"

\* the directories that exist when the image is saved
ExistingDirs == {"tmp", _get_qrcode_assets_dir}

SavedFile(path, data) == [dir |-> path.dir, name |-> path.name, data |-> data]

_generate_qr_img(data_str, out_path) ==
    LET filename          == IF out_path.name # "" THEN out_path.name ELSE "secure_qr.png"
        final_assets_path == PathOf(_get_qrcode_assets_dir, filename)
        alt_saved         == out_path.dir \in ExistingDirs /\ out_path # final_assets_path
    IN  {SavedFile(final_assets_path, data_str)}
        \cup (IF alt_saved THEN {SavedFile(out_path, data_str)} ELSE {})

\* ------------------------------------------------------------------------
\* Inputs
\* ------------------------------------------------------------------------
\* datetime.now(timezone.utc).isoformat(): an instant, "1"
Timestamps == {<<49>>}

\* Envelopes written by hand: every field absent, empty, of the wrong type,
\* unknown, or well formed
CraftVersions == {JAbsent, JNum(1), JNum(2)}
CraftModes    == {JAbsent, JStr(<<>>), JNum(5), JStr(StrHash), JStr(StrHmac), JStr(StrXyz)}
CraftTs       == {JAbsent} \cup {JStr(ts) : ts \in Timestamps}

\* "!" (no alphabet character: decodes to b""), "a" (an unfinished quad) and
\* a non-ASCII character, besides the encodings of the messages
CraftMsgs ==
    {JAbsent, JNum(5), JStr(<<33>>), JStr(<<97>>), JStr(<<233>>)}
    \cup {JStr(b64encode(m)) : m \in Messages}

CraftMacs(msg_b64) ==
    LET mb == decode_msg_b64(msg_b64).bytes
    IN  {JAbsent, JStr(<<>>), JNum(5), JStr(<<97>>), JStr(<<97, 97, 97, 97>>),
         JHex(compute_hash(mb)), JB64(compute_hash(mb)), JHex(compute_hash(<<104, 104, 104, 104>>))}
        \cup {JB64(compute_hmac(mb, StrKey(k))) : k \in KeyStrings \ {<<>>}}

CraftedTokens ==
    {RawToken(FALSE, "invalid"), RawToken(TRUE, "invalid"), RawToken(TRUE, "list"),
     RawToken(TRUE, "number"), RawToken(TRUE, "string"), RawToken(TRUE, "null")}
    \cup UNION {{Envelope(v, mode, mac, msg, ts) :
                    v \in CraftVersions, mode \in CraftModes, mac \in CraftMacs(msg), ts \in CraftTs}
                : msg \in CraftMsgs}

\* Destination URLs: with and without a query, with a repeated name, an
\* empty value, a field without '=', an empty field and an earlier `data`
Queries ==
    {<<>>,
     <<Field("a", TRUE, Lit("1"))>>,
     <<Field("a", TRUE, Lit("1")), Field("b", TRUE, Lit("2"))>>,
     <<Field("a", TRUE, Lit("1")), Field("a", TRUE, Lit("2"))>>,
     <<Field("b", TRUE, Lit(""))>>,
     <<Field("c", FALSE, Lit(""))>>,
     <<Field("a", TRUE, Lit("1")), Field("", FALSE, Lit(""))>>,
     <<Field("data", TRUE, Lit("old"))>>,
     <<Field("data", TRUE, Lit("old")), Field("a", TRUE, Lit("1"))>>,
     <<Field("a", TRUE, Lit("1")), Field("data", TRUE, Lit("old")), Field("data", TRUE, Lit("older"))>>}

Urls ==
    {Url(scheme, "example.com", "/view", "", q, fragment) :
        scheme \in {"http", "https", "ftp"}, q \in Queries, fragment \in {"", "top"}}

\* Rewritings of a msg_b64 string that keep its characters: "!" after it and
\* inside it, a space before it, a newline, "A" and "==" after it, and its
\* last character dropped
MsgB64Mutations(s) ==
    ({s \o <<33>>, <<32>> \o s, s \o <<10>>, s \o <<65>>, s \o <<61, 61>>}
     \cup (IF s = <<>> THEN {}
           ELSE {<<Head(s), 33>> \o Tail(s), SubSeq(s, 1, Len(s) - 1)}))
    \ {s}

\* QR images made by others: a text, and a URL without `data`
ForeignQr ==
    {QrLit("hello"),
     QrUrl(Url("https", "example.com", "/view", "", <<Field("a", TRUE, Lit("1"))>>, ""))}

\* --out: in a directory that exists, in one that does not, and in the
\* assets directory itself
OutPaths ==
    {PathOf("tmp", "test.png"), PathOf("missing", "qr.png"),
     PathOf(_get_qrcode_assets_dir, "qr.png")}

\* os.environ.get("SECURE_QR_ASSETS_DIR"): unset, or a directory
EnvUnset == ""
AssetsDirEnvs == {EnvUnset, "tmp/qrCode"}

\* What a party that holds a token built with `key`, but not the key, can
\* put in the mac field for the message m: the mac it saw, SHA-256 of m in
\* either encoding, and HMACs of m under keys of its own
AdversaryKeys(key) ==
    {StrKey(k) : k \in {x \in KeyStrings \ {<<>>} : PadKey(Utf8Encode(x)) # PadKey(Utf8Encode(key.s))}}

AdversaryMacs(seen, key, m) ==
    {seen, JHex(compute_hash(m)), JB64(compute_hash(m))}
    \cup {JB64(compute_hmac(m, ak)) : ak \in AdversaryKeys(key)}

\* ------------------------------------------------------------------------
\* State
\* ------------------------------------------------------------------------
VARIABLES
    pc,             \* "start", "token" (a token exists), "verified", "embedded"
    origin,         \* how the token came about: "none", "built", "tampered", "forged", "crafted"
    message_bytes,  \* the builder's message
    key,            \* the builder's key
    token,          \* the token handed to the verifier
    vkey,           \* the verifier's key
    verdict,        \* what verify_payload returned
    url,            \* the destination URL given to the builder
    data_to_encode, \* the string handed to the image encoder
    scanned,        \* the str read from the image
    payload,        \* what decode_qr_image returned
    restored,       \* the file cmd_decode or index wrote
    env,            \* SECURE_QR_ASSETS_DIR when the image is generated
    out_path,       \* the out_path given to the builder
    files           \* the image files saved

decodeVars == <<scanned, payload, restored>>
imgVars    == <<env, out_path, files>>

vars == <<pc, origin, message_bytes, key, token, vkey, verdict, url, data_to_encode,
          scanned, payload, restored, env, out_path, files>>

Init ==
    /\ pc = "start"
    /\ origin = "none"
    /\ message_bytes = <<>>
    /\ key = NoneKey
    /\ token = NoToken
    /\ vkey = NoneKey
    /\ verdict = NoVerdict
    /\ url = NoUrl
    /\ data_to_encode = NoUrl
    /\ scanned = NoQr
    /\ payload = NoQr
    /\ restored = NoFile
    /\ env = EnvUnset
    /\ out_path = PathOf("", "")
    /\ files = {}

\* payload_b64 = _make_payload_bytes(message_bytes, key)
MakePayload ==
    /\ pc = "start"
    /\ \E m \in Messages, k \in Keys, ts \in Timestamps :
        /\ message_bytes' = m
        /\ key' = k
        /\ token' = _make_payload_bytes(m, k, ts)
    /\ pc' = "token"
    /\ origin' = "built"
    /\ UNCHANGED <<vkey, verdict, url, data_to_encode>>
    /\ UNCHANGED <<decodeVars, imgVars>>

\* tests: j['msg_b64'] = base64.b64encode(b"tampered"), then re-serialize
TamperMsgB64 ==
    /\ pc = "token"
    /\ origin = "built"
    /\ \E m2 \in Messages \ {message_bytes} :
        token' = [token EXCEPT !.msg_b64 = JStr(b64encode(m2))]
    /\ origin' = "tampered"
    /\ UNCHANGED <<pc, message_bytes, key, vkey, verdict, url, data_to_encode>>
    /\ UNCHANGED <<decodeVars, imgVars>>

\* j['msg_b64'] = s for a string s that is not the one the builder wrote,
\* then re-serialize
MutateMsgB64 ==
    /\ pc = "token"
    /\ origin = "built"
    /\ \E s \in MsgB64Mutations(token.msg_b64.s) :
        token' = [token EXCEPT !.msg_b64 = JStr(s)]
    /\ origin' = "mutated"
    /\ UNCHANGED <<pc, message_bytes, key, vkey, verdict, url, data_to_encode>>
    /\ UNCHANGED <<decodeVars, imgVars>>

\* a party without the key rewrites the fields of an hmac-mode token
Forge ==
    /\ pc = "token"
    /\ origin = "built"
    /\ KeyTruthy(key)
    /\ \E m2 \in Messages, mode \in {StrHash, StrHmac, StrXyz},
          v \in {JNum(1), JNum(2)}, ts \in Timestamps :
        \E mac \in AdversaryMacs(token.mac, key, m2) :
            token' = Envelope(v, JStr(mode), mac, JStr(b64encode(m2)), JStr(ts))
    /\ origin' = "forged"
    /\ UNCHANGED <<pc, message_bytes, key, vkey, verdict, url, data_to_encode>>
    /\ UNCHANGED <<decodeVars, imgVars>>

\* a hand-crafted token
Craft ==
    /\ pc = "start"
    /\ token' \in CraftedTokens
    /\ pc' = "token"
    /\ origin' = "crafted"
    /\ UNCHANGED <<message_bytes, key, vkey, verdict, url, data_to_encode>>
    /\ UNCHANGED <<decodeVars, imgVars>>

\* valid, message, meta, reason = verify_payload(payload, key=...)
\* (the holder of the builder's key verifies a forged token)
Verify ==
    /\ pc = "token"
    /\ \E k \in Keys :
        /\ origin = "forged" => k = key
        /\ vkey' = k
        /\ verdict' = verify_payload(token, k)
    /\ pc' = "verified"
    /\ UNCHANGED <<origin, message_bytes, key, token, url, data_to_encode>>
    /\ UNCHANGED <<decodeVars, imgVars>>

\* data_to_encode = _embed_payload_in_url(url, payload_b64) if url else payload_b64
EmbedUrl ==
    /\ pc = "token"
    /\ origin = "built"
    /\ \E u \in Urls :
        /\ url' = u
        /\ data_to_encode' = _embed_payload_in_url(u, token)
    /\ pc' = "embedded"
    /\ UNCHANGED <<origin, message_bytes, key, token, vkey, verdict>>
    /\ UNCHANGED <<decodeVars, imgVars>>

\* the str in the image at hand: the builder's data_to_encode, the token
\* alone when no URL was given, or what somebody else put in a QR code
ScannedStrings ==
    CASE pc = "embedded" -> {QrUrl(data_to_encode)}
      [] pc = "token"    -> {QrTok(token)}
      [] pc = "start"    -> ForeignQr
      [] OTHER           -> {}

\* main.cmd_decode: decode_qr_image, verify_payload, then the restore
\* (an exception of verify_payload ends the command before any write)
CmdDecode ==
    /\ origin # "forged"
    /\ \E raw \in ScannedStrings, k \in Keys :
        /\ scanned' = raw
        /\ payload' = decode_qr_image(raw)
        /\ vkey' = k
        /\ verdict' = verify_payload(payload_token(decode_qr_image(raw)), k)
        /\ restored' =
              IF verify_payload(payload_token(decode_qr_image(raw)), k).raised THEN NoFile
              ELSE cmd_decode_restore(
                       verify_payload(payload_token(decode_qr_image(raw)), k).valid,
                       verify_payload(payload_token(decode_qr_image(raw)), k).message)
    /\ pc' = "cli_done"
    /\ UNCHANGED <<origin, message_bytes, key, token, url, data_to_encode, imgVars>>

\* web/app.index, POST with an image: qr_secure's decode_qr_image (which
\* differs from qr_verify's only in not testing the list that parse_qs
\* never leaves empty) and verify_payload, then the restore
WebIndex ==
    /\ origin # "forged"
    /\ \E raw \in ScannedStrings, k \in Keys :
        /\ scanned' = raw
        /\ payload' = decode_qr_image(raw)
        /\ vkey' = form_key(k)
        /\ verdict' = secure_verify_payload(payload_token(decode_qr_image(raw)), form_key(k))
        /\ restored' =
              IF secure_verify_payload(payload_token(decode_qr_image(raw)), form_key(k)).raised
              THEN NoFile
              ELSE index_restore(
                       secure_verify_payload(payload_token(decode_qr_image(raw)), form_key(k)).valid,
                       secure_verify_payload(payload_token(decode_qr_image(raw)), form_key(k)).message)
    /\ pc' = "web_done"
    /\ UNCHANGED <<origin, message_bytes, key, token, url, data_to_encode, imgVars>>

\* _generate_qr_img(data_to_encode, out_path, ...), the end of
\* generate_qr_from_text
GenerateQrImg ==
    /\ pc \in {"token", "embedded"}
    /\ origin = "built"
    /\ \E out \in OutPaths, e \in AssetsDirEnvs :
        /\ env' = e
        /\ out_path' = out
        /\ files' = _generate_qr_img(
                        IF pc = "embedded" THEN QrUrl(data_to_encode) ELSE QrTok(token), out)
    /\ pc' = "saved"
    /\ UNCHANGED <<origin, message_bytes, key, token, vkey, verdict, url, data_to_encode,
                   decodeVars>>

Next ==
    \/ MakePayload
    \/ TamperMsgB64
    \/ MutateMsgB64
    \/ Forge
    \/ Craft
    \/ Verify
    \/ EmbedUrl
    \/ CmdDecode
    \/ WebIndex
    \/ GenerateQrImg

Spec == Init /\ [][Next]_vars

\* ------------------------------------------------------------------------
\* Properties
\* ------------------------------------------------------------------------
Verified == pc = "verified"

\* the builder's key is one of the two keys of the round-trip property
KeyNoneOrK == key \in {NoneKey, StrKey(<<107>>)}

\* a reason that contains "mismatch", compared case-insensitively
MentionsMismatch(reason) == reason \in {ReasonHmacMismatch, ReasonHashMismatch}

\* C1: a non-empty message built and verified with the same key (None or "k")
\* is valid, and the message returned is its UTF-8 text when it is valid
\* UTF-8, the base64 of its bytes otherwise.
C1_RoundTrip ==
    (Verified /\ origin = "built" /\ message_bytes # <<>> /\ KeyNoneOrK /\ vkey = key)
    => /\ ~verdict.raised
       /\ verdict.valid
       /\ ~verdict.message.isNone
       /\ verdict.message.s = IF Utf8Decode(message_bytes).ok
                              THEN Utf8Decode(message_bytes).s
                              ELSE b64encode(message_bytes)

\* b"\xc3" built and verified with "k" comes back as "ww=="
C1_Witness ==
    /\ Verified /\ origin = "built"
    /\ message_bytes = <<195>> /\ key = StrKey(<<107>>) /\ vkey = key
    /\ verdict.valid
    /\ verdict.message = SomeStr(<<119, 119, 61, 61>>)

\* C2: the empty message built and verified with the same key (None or "k")
\* is valid and comes back as the empty text.
C2_EmptyRoundTrip ==
    (Verified /\ origin = "built" /\ message_bytes = <<>> /\ KeyNoneOrK /\ vkey = key)
    => /\ ~verdict.raised
       /\ verdict.valid
       /\ verdict.message = SomeStr(<<>>)

\* C3: a token that a party without the key made out of an hmac-mode token,
\* verified with the key, is valid only if it carries the original message.
C3_HmacForgeryResistant ==
    (Verified /\ origin = "forged" /\ KeyTruthy(vkey) /\ verdict.valid)
    => verdict.message = RecoverMessage(message_bytes)

\* C4: replacing msg_b64 by the base64 of a different message makes the
\* verdict invalid with a reason that mentions a mismatch, in hash mode and in
\* hmac mode with the builder's key.
C4_TamperDetected ==
    (Verified /\ origin = "tampered" /\ vkey = key /\ (key = NoneKey \/ KeyTruthy(key)))
    => /\ ~verdict.raised
       /\ ~verdict.valid
       /\ MentionsMismatch(verdict.reason)

\* C5: two distinct non-empty keys give different HMACs of the same message,
\* and a token built with one is invalid under the other, with a reason that
\* mentions a mismatch.
C5_KeySensitivity ==
    (Verified /\ origin = "built" /\ KeyTruthy(key) /\ KeyTruthy(vkey) /\ key # vkey)
    => /\ compute_hmac(message_bytes, key) # compute_hmac(message_bytes, vkey)
       /\ ~verdict.raised
       /\ ~verdict.valid
       /\ MentionsMismatch(verdict.reason)

\* C6: a token built with "k" and verified without a key is invalid, the
\* reason says that a key is required, and the message is not None.
C6_MissingKeyKeepsMessage ==
    (Verified /\ origin = "built" /\ key = StrKey(<<107>>) /\ vkey = NoneKey)
    => /\ ~verdict.raised
       /\ ~verdict.valid
       /\ verdict.reason = ReasonKeyRequired
       /\ ~verdict.message.isNone

\* C7: verify_payload returns a verdict for every token and key: no exception
\* leaves it.
C7_VerifierTotal == Verified => ~verdict.raised

\* C8: an envelope whose v is not 1 (another number, or absent) is never valid.
C8_VersionGuard ==
    (Verified /\ token.b64ok /\ token.json = "object" /\ token.v # JNum(1))
    => ~verdict.raised /\ ~verdict.valid

\* C9: an envelope whose mode is non-empty and neither "hash" nor "hmac",
\* whose mac and msg_b64 pass the presence check and whose msg_b64 decodes, is
\* invalid with the unknown-mode reason, whatever the key.
C9_UnknownMode ==
    (/\ Verified /\ token.b64ok /\ token.json = "object"
     /\ Truthy(token.mode) /\ token.mode \notin {JStr(StrHash), JStr(StrHmac)}
     /\ Truthy(token.mac) /\ Truthy(token.msg_b64)
     /\ decode_msg_b64(token.msg_b64).ok)
    => /\ ~verdict.raised
       /\ ~verdict.valid
       /\ verdict.reason = ReasonUnknownMode
       /\ verdict.message.isNone

\* mode "xyz" with the right SHA-256 of "h", verified with "k"
C9_Witness ==
    /\ Verified
    /\ token.mode = JStr(StrXyz)
    /\ token.msg_b64 = JStr(b64encode(<<104>>))
    /\ token.mac = JHex(compute_hash(<<104>>))
    /\ vkey = StrKey(<<107>>)
    /\ ~verdict.valid
    /\ verdict.reason = ReasonUnknownMode

\* the query parameters of a query other than `data`, as (name, value) pairs:
\* a field without '=' is a parameter with an empty value
IsOtherParam(f) == (f.name # "" \/ f.eq) /\ f.name # "data"
OtherParams(query) ==
    LET kept == SelectSeq(query, IsOtherParam)
    IN  [i \in DOMAIN kept |-> <<kept[i].name, kept[i].value>>]
Occurrences(seq, x) == Cardinality({i \in DOMAIN seq : seq[i] = x})

\* C10: the URL made by the embedding has the scheme, host, path and fragment
\* of the destination URL, exactly one `data` parameter, whose value is the
\* token, and every other parameter of the destination URL, repeated names and
\* empty values included.
C10_EmbedPreservesUrl ==
    pc = "embedded"
    => /\ data_to_encode.scheme = url.scheme
       /\ data_to_encode.netloc = url.netloc
       /\ data_to_encode.path = url.path
       /\ data_to_encode.fragment = url.fragment
       /\ Cardinality({i \in DOMAIN data_to_encode.query :
                          data_to_encode.query[i].name = "data"}) = 1
       /\ \A i \in DOMAIN data_to_encode.query :
            data_to_encode.query[i].name = "data"
            => data_to_encode.query[i].value = Tok(token)
       /\ \A i \in DOMAIN OtherParams(url.query) :
            Occurrences(OtherParams(data_to_encode.query), OtherParams(url.query)[i])
            >= Occurrences(OtherParams(url.query), OtherParams(url.query)[i])

\* the CLI command or the web handler has run
HandlerDone == pc \in {"cli_done", "web_done"}

IsHttpUrl(q) == q.kind = "url" /\ q.url.scheme \in {"http", "https"}

\* C11: the extraction of decode_qr_image gives back the builder's token
\* from the token embedded in an http or https URL, with or without an
\* earlier `data`, and gives back unchanged a scanned string that is no
\* http/https URL.
C11_ExtractInvertsEmbed ==
    HandlerDone =>
        /\ (IsHttpUrl(scanned) /\ scanned = QrUrl(_embed_payload_in_url(url, token)))
            => payload = QrTok(token)
        /\ ~IsHttpUrl(scanned) => payload = scanned

\* the token comes back from an https URL that had data=old and data=older
C11_Witness ==
    /\ pc = "cli_done"
    /\ origin = "built"
    /\ url.scheme = "https"
    /\ Len(qs_data(url.query)) = 2
    /\ scanned = QrUrl(_embed_payload_in_url(url, token))
    /\ payload = QrTok(token)

\* C12: cmd_decode and index write recovered bytes to disk (restored.bin,
\* <upload>.restored) only if verify_payload returned valid=true for the
\* token and key at hand.
C12_PersistenceGated ==
    (HandlerDone /\ restored.written) => (~verdict.raised /\ verdict.valid)

\* b"\xc3" built with "k", decoded by the CLI with "k": restored.bin holds it
C12_Witness ==
    /\ pc = "cli_done"
    /\ origin = "built"
    /\ message_bytes = <<195>> /\ key = StrKey(<<107>>) /\ vkey = key
    /\ verdict.valid
    /\ restored = FileWritten("restored.bin", <<195>>)

\* C13: when SECURE_QR_ASSETS_DIR names a directory D, the image is saved at
\* D/<out.name>, whatever the directory of out, and what that file holds
\* decodes to a payload that verifies valid with the builder's key.
C13_AssetsDirFromEnv ==
    (pc = "saved" /\ env # EnvUnset)
    => \E f \in files :
          /\ f.dir = env
          /\ f.name = out_path.name
          /\ verify_payload(payload_token(decode_qr_image(f.data)), key).valid

\* the token as the builder made it, before its msg_b64 was replaced
OriginalToken == [token EXCEPT !.msg_b64 = JStr(b64encode(message_bytes))]

\* C14: when the builder's token is valid under the verifier's key, the
\* token with msg_b64 replaced by any other string is invalid under that key.
C14_AnyMutationDetected ==
    (/\ Verified
     /\ origin \in {"tampered", "mutated"}
     /\ token.msg_b64 # OriginalToken.msg_b64
     /\ verify_payload(OriginalToken, vkey).valid)
    => ~verdict.raised /\ ~verdict.valid

\* what ts can be replaced by: nothing, null, an instant, another, "" and a
\* number
TsValues == CraftTs \cup {JNull, JStr(<<>>), JStr(<<50>>), JNum(5)}

\* C15: for every envelope and key, verify_payload of the envelope with ts
\* replaced by any value, or removed, returns the same valid flag, message
\* and reason, and the same meta but for its ts, which is the new ts.
C15_TsNotTrusted ==
    (Verified /\ token.b64ok /\ token.json = "object")
    => \A ts2 \in TsValues :
          LET other == verify_payload([token EXCEPT !.ts = ts2], vkey)
          IN  /\ other.raised = verdict.raised
              /\ other.valid = verdict.valid
              /\ other.message = verdict.message
              /\ other.reason = verdict.reason
              /\ other.meta.isNone = verdict.meta.isNone
              /\ other.meta.mode = verdict.meta.mode
              /\ ~other.meta.isNone => other.meta.ts = payload_get(ts2)

\* an envelope without ts, of the message "h" in hash mode, is valid
C15_Witness ==
    /\ Verified
    /\ token.ts = JAbsent
    /\ token.mode = JStr(StrHash)
    /\ token.msg_b64 = JStr(b64encode(<<104>>))
    /\ verdict.valid
    /\ verdict.meta.ts = JNull

\* C16: for a token that verifies valid, cmd_decode writes restored.bin, and
\* index writes the .restored download, if and only if the message bytes of
\* the token are not valid UTF-8.
C16_BinaryIffNotUtf8 ==
    (HandlerDone /\ ~verdict.raised /\ verdict.valid)
    => (restored.written <=> ~Utf8Decode(decode_msg_b64(payload.tok.msg_b64).bytes).ok)

\* a verdict is at hand, and the token and verifier it belongs to
VerdictReady  == Verified \/ HandlerDone
VerifiedToken == IF Verified THEN token ELSE payload_token(payload)

MismatchReasons ==
    {ReasonHashMismatch, ReasonHmacMismatch, SecHashMismatch, SecHmacMismatch}

\* C17: when verify_payload (of qr_verify, qr_secure or qr_verifier) returns
\* valid=true, reason is None, message and meta are not None, and either the
\* mode is "hash" and mac is the hex SHA-256 of the decoded message bytes, or
\* the mode is "hmac", the key is a non-empty string and the base64-decoded
\* mac is the HMAC-SHA256 of the decoded message bytes under the key; when
\* it returns valid=false, reason is a non-empty string, and message is not
\* None only when the reason is a hash or HMAC mismatch.
C17_VerdictSound ==
    (VerdictReady /\ ~verdict.raised)
    => LET t  == VerifiedToken
           mb == decode_msg_b64(payload_get(t.msg_b64)).bytes
       IN  IF verdict.valid THEN
               /\ verdict.reason = NoReason
               /\ ~verdict.message.isNone
               /\ ~verdict.meta.isNone
               /\ t.b64ok /\ t.json = "object"
               /\ decode_msg_b64(payload_get(t.msg_b64)).ok
               /\ \/ /\ t.mode = JStr(StrHash)
                     /\ t.mac = JHex(compute_hash(mb))
                  \/ /\ t.mode = JStr(StrHmac)
                     /\ ~vkey.isNone /\ vkey.s # <<>>
                     /\ decode_mac_field(t.mac).ok
                     /\ decode_mac_field(t.mac).d = compute_hmac(mb, vkey)
           ELSE
               /\ verdict.reason \notin {NoReason, ""}
               /\ ~verdict.message.isNone => verdict.reason \in MismatchReasons

\* the web handler accepts an hmac-mode token of "h" under the key "k"
C17_Witness ==
    /\ pc = "web_done"
    /\ verdict.valid
    /\ payload.tok.mode = JStr(StrHmac)
    /\ payload.tok.mac = JB64(compute_hmac(<<104>>, StrKey(<<107>>)))
    /\ vkey = StrKey(<<107>>)
    /\ verdict.message = SomeStr(<<104>>)

====
